---- MODULE Spec2Model ----
(***************************************************************************)
(* A model of fix_fft.c, the fixed-point in-place decimation-in-time FFT   *)
(* of uSDR-pico: the Q(0,15) multiply FIX_MPY and the transform fix_fft    *)
(* (bit-reversal pass, then FFT_ORDER stages of range scan and             *)
(* butterflies), on the program's own tables and transform size.           *)
(***************************************************************************)
EXTENDS Integers, Sequences, FiniteSets, TLC

(* The transform size, "fixed at 1024", and its number of stages.          *)
FFT_SIZE == 1024
FFT_ORDER == 10

(* int16_t Sine[3*FFT_SIZE/4]: the fixed-point sine table, entry j at Sine[j+1]. *)
Sine ==
  <<
    0, 201, 402, 603, 804, 1005, 1206, 1406,
    1607, 1808, 2009, 2209, 2410, 2610, 2811, 3011,
    3211, 3411, 3611, 3811, 4011, 4210, 4409, 4608,
    4807, 5006, 5205, 5403, 5601, 5799, 5997, 6195,
    6392, 6589, 6786, 6982, 7179, 7375, 7571, 7766,
    7961, 8156, 8351, 8545, 8739, 8932, 9126, 9319,
    9511, 9703, 9895, 10087, 10278, 10469, 10659, 10849,
    11038, 11227, 11416, 11604, 11792, 11980, 12166, 12353,
    12539, 12724, 12909, 13094, 13278, 13462, 13645, 13827,
    14009, 14191, 14372, 14552, 14732, 14911, 15090, 15268,
    15446, 15623, 15799, 15975, 16150, 16325, 16499, 16672,
    16845, 17017, 17189, 17360, 17530, 17699, 17868, 18036,
    18204, 18371, 18537, 18702, 18867, 19031, 19194, 19357,
    19519, 19680, 19840, 20000, 20159, 20317, 20474, 20631,
    20787, 20942, 21096, 21249, 21402, 21554, 21705, 21855,
    22004, 22153, 22301, 22448, 22594, 22739, 22883, 23027,
    23169, 23311, 23452, 23592, 23731, 23869, 24006, 24143,
    24278, 24413, 24546, 24679, 24811, 24942, 25072, 25201,
    25329, 25456, 25582, 25707, 25831, 25954, 26077, 26198,
    26318, 26437, 26556, 26673, 26789, 26905, 27019, 27132,
    27244, 27355, 27466, 27575, 27683, 27790, 27896, 28001,
    28105, 28208, 28309, 28410, 28510, 28608, 28706, 28802,
    28897, 28992, 29085, 29177, 29268, 29358, 29446, 29534,
    29621, 29706, 29790, 29873, 29955, 30036, 30116, 30195,
    30272, 30349, 30424, 30498, 30571, 30643, 30713, 30783,
    30851, 30918, 30984, 31049, 31113, 31175, 31236, 31297,
    31356, 31413, 31470, 31525, 31580, 31633, 31684, 31735,
    31785, 31833, 31880, 31926, 31970, 32014, 32056, 32097,
    32137, 32176, 32213, 32249, 32284, 32318, 32350, 32382,
    32412, 32441, 32468, 32495, 32520, 32544, 32567, 32588,
    32609, 32628, 32646, 32662, 32678, 32692, 32705, 32717,
    32727, 32736, 32744, 32751, 32757, 32761, 32764, 32766,
    32767, 32766, 32764, 32761, 32757, 32751, 32744, 32736,
    32727, 32717, 32705, 32692, 32678, 32662, 32646, 32628,
    32609, 32588, 32567, 32544, 32520, 32495, 32468, 32441,
    32412, 32382, 32350, 32318, 32284, 32249, 32213, 32176,
    32137, 32097, 32056, 32014, 31970, 31926, 31880, 31833,
    31785, 31735, 31684, 31633, 31580, 31525, 31470, 31413,
    31356, 31297, 31236, 31175, 31113, 31049, 30984, 30918,
    30851, 30783, 30713, 30643, 30571, 30498, 30424, 30349,
    30272, 30195, 30116, 30036, 29955, 29873, 29790, 29706,
    29621, 29534, 29446, 29358, 29268, 29177, 29085, 28992,
    28897, 28802, 28706, 28608, 28510, 28410, 28309, 28208,
    28105, 28001, 27896, 27790, 27683, 27575, 27466, 27355,
    27244, 27132, 27019, 26905, 26789, 26673, 26556, 26437,
    26318, 26198, 26077, 25954, 25831, 25707, 25582, 25456,
    25329, 25201, 25072, 24942, 24811, 24679, 24546, 24413,
    24278, 24143, 24006, 23869, 23731, 23592, 23452, 23311,
    23169, 23027, 22883, 22739, 22594, 22448, 22301, 22153,
    22004, 21855, 21705, 21554, 21402, 21249, 21096, 20942,
    20787, 20631, 20474, 20317, 20159, 20000, 19840, 19680,
    19519, 19357, 19194, 19031, 18867, 18702, 18537, 18371,
    18204, 18036, 17868, 17699, 17530, 17360, 17189, 17017,
    16845, 16672, 16499, 16325, 16150, 15975, 15799, 15623,
    15446, 15268, 15090, 14911, 14732, 14552, 14372, 14191,
    14009, 13827, 13645, 13462, 13278, 13094, 12909, 12724,
    12539, 12353, 12166, 11980, 11792, 11604, 11416, 11227,
    11038, 10849, 10659, 10469, 10278, 10087, 9895, 9703,
    9511, 9319, 9126, 8932, 8739, 8545, 8351, 8156,
    7961, 7766, 7571, 7375, 7179, 6982, 6786, 6589,
    6392, 6195, 5997, 5799, 5601, 5403, 5205, 5006,
    4807, 4608, 4409, 4210, 4011, 3811, 3611, 3411,
    3211, 3011, 2811, 2610, 2410, 2209, 2009, 1808,
    1607, 1406, 1206, 1005, 804, 603, 402, 201,
    0, -201, -402, -603, -804, -1005, -1206, -1406,
    -1607, -1808, -2009, -2209, -2410, -2610, -2811, -3011,
    -3211, -3411, -3611, -3811, -4011, -4210, -4409, -4608,
    -4807, -5006, -5205, -5403, -5601, -5799, -5997, -6195,
    -6392, -6589, -6786, -6982, -7179, -7375, -7571, -7766,
    -7961, -8156, -8351, -8545, -8739, -8932, -9126, -9319,
    -9511, -9703, -9895, -10087, -10278, -10469, -10659, -10849,
    -11038, -11227, -11416, -11604, -11792, -11980, -12166, -12353,
    -12539, -12724, -12909, -13094, -13278, -13462, -13645, -13827,
    -14009, -14191, -14372, -14552, -14732, -14911, -15090, -15268,
    -15446, -15623, -15799, -15975, -16150, -16325, -16499, -16672,
    -16845, -17017, -17189, -17360, -17530, -17699, -17868, -18036,
    -18204, -18371, -18537, -18702, -18867, -19031, -19194, -19357,
    -19519, -19680, -19840, -20000, -20159, -20317, -20474, -20631,
    -20787, -20942, -21096, -21249, -21402, -21554, -21705, -21855,
    -22004, -22153, -22301, -22448, -22594, -22739, -22883, -23027,
    -23169, -23311, -23452, -23592, -23731, -23869, -24006, -24143,
    -24278, -24413, -24546, -24679, -24811, -24942, -25072, -25201,
    -25329, -25456, -25582, -25707, -25831, -25954, -26077, -26198,
    -26318, -26437, -26556, -26673, -26789, -26905, -27019, -27132,
    -27244, -27355, -27466, -27575, -27683, -27790, -27896, -28001,
    -28105, -28208, -28309, -28410, -28510, -28608, -28706, -28802,
    -28897, -28992, -29085, -29177, -29268, -29358, -29446, -29534,
    -29621, -29706, -29790, -29873, -29955, -30036, -30116, -30195,
    -30272, -30349, -30424, -30498, -30571, -30643, -30713, -30783,
    -30851, -30918, -30984, -31049, -31113, -31175, -31236, -31297,
    -31356, -31413, -31470, -31525, -31580, -31633, -31684, -31735,
    -31785, -31833, -31880, -31926, -31970, -32014, -32056, -32097,
    -32137, -32176, -32213, -32249, -32284, -32318, -32350, -32382,
    -32412, -32441, -32468, -32495, -32520, -32544, -32567, -32588,
    -32609, -32628, -32646, -32662, -32678, -32692, -32705, -32717,
    -32727, -32736, -32744, -32751, -32757, -32761, -32764, -32766
  >>

(* int16_t bitrev[FFT_SIZE]: the bit-reversal lookup table, entry i at bitrev[i+1]. *)
bitrev ==
  <<
    0, 512, 256, 768, 128, 640, 384, 896, 64, 576, 320, 832, 192, 704, 448, 960,
    32, 544, 288, 800, 160, 672, 416, 928, 96, 608, 352, 864, 224, 736, 480, 992,
    16, 528, 272, 784, 144, 656, 400, 912, 80, 592, 336, 848, 208, 720, 464, 976,
    48, 560, 304, 816, 176, 688, 432, 944, 112, 624, 368, 880, 240, 752, 496, 1008,
    8, 520, 264, 776, 136, 648, 392, 904, 72, 584, 328, 840, 200, 712, 456, 968,
    40, 552, 296, 808, 168, 680, 424, 936, 104, 616, 360, 872, 232, 744, 488, 1000,
    24, 536, 280, 792, 152, 664, 408, 920, 88, 600, 344, 856, 216, 728, 472, 984,
    56, 568, 312, 824, 184, 696, 440, 952, 120, 632, 376, 888, 248, 760, 504, 1016,
    4, 516, 260, 772, 132, 644, 388, 900, 68, 580, 324, 836, 196, 708, 452, 964,
    36, 548, 292, 804, 164, 676, 420, 932, 100, 612, 356, 868, 228, 740, 484, 996,
    20, 532, 276, 788, 148, 660, 404, 916, 84, 596, 340, 852, 212, 724, 468, 980,
    52, 564, 308, 820, 180, 692, 436, 948, 116, 628, 372, 884, 244, 756, 500, 1012,
    12, 524, 268, 780, 140, 652, 396, 908, 76, 588, 332, 844, 204, 716, 460, 972,
    44, 556, 300, 812, 172, 684, 428, 940, 108, 620, 364, 876, 236, 748, 492, 1004,
    28, 540, 284, 796, 156, 668, 412, 924, 92, 604, 348, 860, 220, 732, 476, 988,
    60, 572, 316, 828, 188, 700, 444, 956, 124, 636, 380, 892, 252, 764, 508, 1020,
    2, 514, 258, 770, 130, 642, 386, 898, 66, 578, 322, 834, 194, 706, 450, 962,
    34, 546, 290, 802, 162, 674, 418, 930, 98, 610, 354, 866, 226, 738, 482, 994,
    18, 530, 274, 786, 146, 658, 402, 914, 82, 594, 338, 850, 210, 722, 466, 978,
    50, 562, 306, 818, 178, 690, 434, 946, 114, 626, 370, 882, 242, 754, 498, 1010,
    10, 522, 266, 778, 138, 650, 394, 906, 74, 586, 330, 842, 202, 714, 458, 970,
    42, 554, 298, 810, 170, 682, 426, 938, 106, 618, 362, 874, 234, 746, 490, 1002,
    26, 538, 282, 794, 154, 666, 410, 922, 90, 602, 346, 858, 218, 730, 474, 986,
    58, 570, 314, 826, 186, 698, 442, 954, 122, 634, 378, 890, 250, 762, 506, 1018,
    6, 518, 262, 774, 134, 646, 390, 902, 70, 582, 326, 838, 198, 710, 454, 966,
    38, 550, 294, 806, 166, 678, 422, 934, 102, 614, 358, 870, 230, 742, 486, 998,
    22, 534, 278, 790, 150, 662, 406, 918, 86, 598, 342, 854, 214, 726, 470, 982,
    54, 566, 310, 822, 182, 694, 438, 950, 118, 630, 374, 886, 246, 758, 502, 1014,
    14, 526, 270, 782, 142, 654, 398, 910, 78, 590, 334, 846, 206, 718, 462, 974,
    46, 558, 302, 814, 174, 686, 430, 942, 110, 622, 366, 878, 238, 750, 494, 1006,
    30, 542, 286, 798, 158, 670, 414, 926, 94, 606, 350, 862, 222, 734, 478, 990,
    62, 574, 318, 830, 190, 702, 446, 958, 126, 638, 382, 894, 254, 766, 510, 1022,
    1, 513, 257, 769, 129, 641, 385, 897, 65, 577, 321, 833, 193, 705, 449, 961,
    33, 545, 289, 801, 161, 673, 417, 929, 97, 609, 353, 865, 225, 737, 481, 993,
    17, 529, 273, 785, 145, 657, 401, 913, 81, 593, 337, 849, 209, 721, 465, 977,
    49, 561, 305, 817, 177, 689, 433, 945, 113, 625, 369, 881, 241, 753, 497, 1009,
    9, 521, 265, 777, 137, 649, 393, 905, 73, 585, 329, 841, 201, 713, 457, 969,
    41, 553, 297, 809, 169, 681, 425, 937, 105, 617, 361, 873, 233, 745, 489, 1001,
    25, 537, 281, 793, 153, 665, 409, 921, 89, 601, 345, 857, 217, 729, 473, 985,
    57, 569, 313, 825, 185, 697, 441, 953, 121, 633, 377, 889, 249, 761, 505, 1017,
    5, 517, 261, 773, 133, 645, 389, 901, 69, 581, 325, 837, 197, 709, 453, 965,
    37, 549, 293, 805, 165, 677, 421, 933, 101, 613, 357, 869, 229, 741, 485, 997,
    21, 533, 277, 789, 149, 661, 405, 917, 85, 597, 341, 853, 213, 725, 469, 981,
    53, 565, 309, 821, 181, 693, 437, 949, 117, 629, 373, 885, 245, 757, 501, 1013,
    13, 525, 269, 781, 141, 653, 397, 909, 77, 589, 333, 845, 205, 717, 461, 973,
    45, 557, 301, 813, 173, 685, 429, 941, 109, 621, 365, 877, 237, 749, 493, 1005,
    29, 541, 285, 797, 157, 669, 413, 925, 93, 605, 349, 861, 221, 733, 477, 989,
    61, 573, 317, 829, 189, 701, 445, 957, 125, 637, 381, 893, 253, 765, 509, 1021,
    3, 515, 259, 771, 131, 643, 387, 899, 67, 579, 323, 835, 195, 707, 451, 963,
    35, 547, 291, 803, 163, 675, 419, 931, 99, 611, 355, 867, 227, 739, 483, 995,
    19, 531, 275, 787, 147, 659, 403, 915, 83, 595, 339, 851, 211, 723, 467, 979,
    51, 563, 307, 819, 179, 691, 435, 947, 115, 627, 371, 883, 243, 755, 499, 1011,
    11, 523, 267, 779, 139, 651, 395, 907, 75, 587, 331, 843, 203, 715, 459, 971,
    43, 555, 299, 811, 171, 683, 427, 939, 107, 619, 363, 875, 235, 747, 491, 1003,
    27, 539, 283, 795, 155, 667, 411, 923, 91, 603, 347, 859, 219, 731, 475, 987,
    59, 571, 315, 827, 187, 699, 443, 955, 123, 635, 379, 891, 251, 763, 507, 1019,
    7, 519, 263, 775, 135, 647, 391, 903, 71, 583, 327, 839, 199, 711, 455, 967,
    39, 551, 295, 807, 167, 679, 423, 935, 103, 615, 359, 871, 231, 743, 487, 999,
    23, 535, 279, 791, 151, 663, 407, 919, 87, 599, 343, 855, 215, 727, 471, 983,
    55, 567, 311, 823, 183, 695, 439, 951, 119, 631, 375, 887, 247, 759, 503, 1015,
    15, 527, 271, 783, 143, 655, 399, 911, 79, 591, 335, 847, 207, 719, 463, 975,
    47, 559, 303, 815, 175, 687, 431, 943, 111, 623, 367, 879, 239, 751, 495, 1007,
    31, 543, 287, 799, 159, 671, 415, 927, 95, 607, 351, 863, 223, 735, 479, 991,
    63, 575, 319, 831, 191, 703, 447, 959, 127, 639, 383, 895, 255, 767, 511, 1023
  >>

(* ---------------------------------------------------------------------- *)
(* C integer behaviour                                                      *)
(* ---------------------------------------------------------------------- *)

(* Conversion of an int to int16_t: reduction modulo 2^16 into             *)
(* [-32768, 32767].                                                         *)
Int16(x) == ((x + 32768) % 65536) - 32768

(* C's x/2 on int: the quotient truncated toward zero.                     *)
Half(x) == IF x >= 0 THEN x \div 2 ELSE -((-x) \div 2)

(* A plausible slip: the shift written as C's division, which truncates   *)
(* toward zero.                                                             *)
Shr15Truncating(x) == IF x >= 0 THEN x \div 32768 ELSE -((-x) \div 32768)

(* x >> 15 on a negative int32_t is an arithmetic shift on the target      *)
(* (arm-none-eabi-gcc): the floor of x / 2^15.                              *)
Shr15(x) == x \div 32768

InRange16(x) == x >= -32768 /\ x <= 32767

Indices == 0 .. (FFT_SIZE - 1)

(* A loop of the program is unrolled to at most 2^LoopDepth iterations.    *)
LoopDepth == 11

(* Array reads. An index outside the array reads whatever the memory next  *)
(* to it holds: oob stands for that value.                                 *)
SineAt(idx, oob) == IF idx >= 0 /\ idx < Len(Sine) THEN Sine[idx + 1] ELSE oob

(** FIX_MPY() **)
FIX_MPY(a, b) ==
  LET c0 == a * b
      c1 == c0 + 16384
      c2 == Shr15(c1)
  IN  Int16(c2)

(* Reads and writes of fr[] and fi[]. The ghost flag oobAccess of a loop    *)
(* state records an index outside 0..FFT_SIZE-1; such a read yields oob.   *)
At(arr, idx, oob) == IF idx \in Indices THEN arr[idx] ELSE oob

Put(arr, idx, v) == IF idx \in Indices THEN [arr EXCEPT ![idx] = v] ELSE arr

(* ---------------------------------------------------------------------- *)
(* Decimation in time: re-order samples                                     *)
(* ---------------------------------------------------------------------- *)

(* A plausible slip: the test for "not a fixed point", which swaps every    *)
(* pair twice.                                                              *)
SwapNeededBothWays(bp, i) == bp # i

(* the test of bitrev[i] against i: if bitrev[i] > i *)
SwapNeeded(bp, i) == bp > i

(* The body of the loop and its i++. s.swaps is the ghost list of the      *)
(* swaps performed, in order.                                               *)
BitRevBody(s) ==
  LET i  == s.i
      bp == bitrev[i + 1]
  IN  IF SwapNeeded(bp, i)
      THEN [fr    |-> [s.fr EXCEPT ![i] = s.fr[bp], ![bp] = s.fr[i]],
            fi    |-> [s.fi EXCEPT ![i] = s.fi[bp], ![bp] = s.fi[i]],
            swaps |-> Append(s.swaps, <<i, bp>>),
            i     |-> i + 1]
      ELSE [s EXCEPT !.i = i + 1]

(* for (i=0; i<FFT_SIZE; i++): the iterations in order, at most 2^d of    *)
(* them from state s, stopping where the loop test fails.                  *)
RECURSIVE BitRevLoop(_, _)
BitRevLoop(s, d) ==
  IF ~(s.i < FFT_SIZE) THEN s
  ELSE IF d = 0 THEN BitRevBody(s)
  ELSE CHOOSE r \in {BitRevLoop(t, d - 1) : t \in {BitRevLoop(s, d - 1)}} : TRUE

(* ---------------------------------------------------------------------- *)
(* One stage: range scan, then the butterflies                              *)
(* ---------------------------------------------------------------------- *)

(* (fr[i] > 0x3fff) || (fr[i] < -0x4000) || (fi[i] > 0x3fff) || (fi[i] < -0x4000) *)
OutOfSafeRange(re, im) ==
  (re > 16383) \/ (re < -16384) \/ (im > 16383) \/ (im < -16384)

(* The range test loop: the samples at which the test succeeds. The loop   *)
(* stops at the first of them.                                              *)
Detected(re, im) == {i \in Indices : OutOfSafeRange(re[i], im[i])}

(* shift after the loop: set at the first detect.                           *)
ScanShift(re, im) == Detected(re, im) # {}

(* A plausible slip: the loop without its break, counting every detect.    *)
ScanScaleNoBreak(re, im, sc) == (sc + Cardinality(Detected(re, im))) % 65536

(* scale after the loop: scale++ once, at the first detect, then break.    *)
ScanScale(re, im, sc) == IF Detected(re, im) # {} THEN (sc + 1) % 65536 ELSE sc

(* A plausible slip: the shift count off by one.                            *)
TwiddleIndexByK(m, kk) == (m * (2 ^ kk)) % 65536

(* j = m << (k-1), a uint16_t *)
TwiddleIndex(m, kk) == (m * (2 ^ (kk - 1))) % 65536

(* wr = Sine[j+FFT_SIZE/4]; wi = inverse ? Sine[j] : -Sine[j];              *)
(* if (shift) { wr = wr/2; wi = wi/2; }                                     *)
Wr(j, sh, oob) ==
  LET w == SineAt(j + (FFT_SIZE \div 4), oob) IN IF sh THEN Half(w) ELSE w

Wi(j, inv, sh, oob) ==
  LET w == IF inv THEN SineAt(j, oob) ELSE Int16(-SineAt(j, oob))
  IN  IF sh THEN Half(w) ELSE w

(* A plausible slip: the inner loop advancing by step, not by step*2.      *)
StrideOneStep(stp) == stp

(* The increment of the inner loop: i += (step*2) *)
Stride(stp) == stp * 2

(* A plausible slip: the neighbour instead of the sample step away.        *)
PartnerNeighbour(i, stp) == (i + 1) % 65536

(* j = i + step, a uint16_t *)
Partner(i, stp) == (i + stp) % 65536

(* The body of the inner loop, for the pair (i, j = i + step). The ghost   *)
(* fields: pairs lists the pairs visited in this stage, nwrap counts the   *)
(* butterflies of the call in which a value stored in an int16_t (tr, ti,  *)
(* fr[i], fi[i], fr[j], fi[j]) differs from the integer the expression     *)
(* denotes.                                                                  *)
Butterfly(s, stp, wr, wi, sh, oob) ==
  LET i   == s.i
      j   == Partner(i, stp)
      frj == At(s.fr, j, oob)
      fij == At(s.fi, j, oob)
      trT == FIX_MPY(wr, frj) - FIX_MPY(wi, fij)
      tiT == FIX_MPY(wr, fij) + FIX_MPY(wi, frj)
      tr  == Int16(trT)
      ti  == Int16(tiT)
      qr  == IF sh THEN Half(At(s.fr, i, oob)) ELSE At(s.fr, i, oob)
      qi  == IF sh THEN Half(At(s.fi, i, oob)) ELSE At(s.fi, i, oob)
      exact == /\ InRange16(trT) /\ InRange16(tiT)
               /\ InRange16(qr + tr) /\ InRange16(qi + ti)
               /\ InRange16(qr - tr) /\ InRange16(qi - ti)
  IN  [fr    |-> Put(Put(s.fr, i, Int16(qr + tr)), j, Int16(qr - tr)),
       fi    |-> Put(Put(s.fi, i, Int16(qi + ti)), j, Int16(qi - ti)),
       pairs |-> Append(s.pairs, <<i, j>>),
       tw    |-> s.tw,
       nwrap |-> IF exact THEN s.nwrap ELSE s.nwrap + 1,
       oobAccess |-> s.oobAccess \/ i \notin Indices \/ j \notin Indices,
       m     |-> s.m,
       i     |-> (i + Stride(stp)) % 65536]

(* for (i=m; i<FFT_SIZE; i+=(step*2)): the iterations in order, at most    *)
(* 2^d of them from state s, stopping where the loop test fails.           *)
RECURSIVE InnerLoop(_, _, _, _, _, _, _)
InnerLoop(s, d, stp, wr, wi, sh, oob) ==
  IF ~(s.i < FFT_SIZE) THEN s
  ELSE IF d = 0 THEN Butterfly(s, stp, wr, wi, sh, oob)
  ELSE CHOOSE r \in {InnerLoop(t, d - 1, stp, wr, wi, sh, oob) :
                       t \in {InnerLoop(s, d - 1, stp, wr, wi, sh, oob)}} : TRUE

(* The body of the outer loop and its m++: the twiddle factors of group m, *)
(* then its butterflies. The ghost field tw lists the twiddle indices j    *)
(* used, and oobAccess also records a read past the end of Sine.           *)
Group(s, kk, stp, inv, sh, oob) ==
  LET m  == s.m
      j  == TwiddleIndex(m, kk)
      c  == j + (FFT_SIZE \div 4)
      wr == Wr(j, sh, oob)
      wi == Wi(j, inv, sh, oob)
      s1 == [s EXCEPT !.tw = Append(@, j),
                      !.oobAccess = @ \/ j >= Len(Sine) \/ c >= Len(Sine),
                      !.i = m]
  IN  CHOOSE r \in {[InnerLoop(t, LoopDepth, stp, w[1], w[2], sh, oob) EXCEPT !.m = m + 1] :
                       t \in {s1}, w \in {<<wr, wi>>}} : TRUE

(* for (m=0; m<step; m++): the iterations in order, at most 2^d of them    *)
(* from state s, stopping where the loop test fails. (The first half of    *)
(* the iterations is evaluated once, as t, before the second half runs.)   *)
RECURSIVE GroupLoop(_, _, _, _, _, _, _)
GroupLoop(s, d, kk, stp, inv, sh, oob) ==
  IF ~(s.m < stp) THEN s
  ELSE IF d = 0 THEN Group(s, kk, stp, inv, sh, oob)
  ELSE CHOOSE r \in {GroupLoop(t, d - 1, kk, stp, inv, sh, oob) :
                       t \in {GroupLoop(s, d - 1, kk, stp, inv, sh, oob)}} : TRUE

(* A plausible slip: the shifted value is not assigned.                     *)
NextStepDropped(stp) == stp

(* step = step<<1, a uint16_t *)
NextStep(stp) == (stp * 2) % 65536

(* ---------------------------------------------------------------------- *)
(* Input signals                                                            *)
(* ---------------------------------------------------------------------- *)

(* Number of pseudo-random signals among the inputs.                        *)
MaxSeed == 2

(* Amplitudes of the structured signals: both ends of the int16_t range,   *)
(* the last value the range test lets through, and a small one.             *)
Amps == {32767, -32768, 16383, 100}

(* The value a read outside an array may yield.                             *)
OobValues == {-32768, 0, 32767}

Zero == [i \in Indices |-> 0]

Signal(kind, a) ==
  CASE kind = "zero"    -> [re |-> Zero, im |-> Zero]
    [] kind = "impulse" -> [re |-> [i \in Indices |-> IF i = 0 THEN a ELSE 0],
                            im |-> Zero]
    [] kind = "dc"      -> [re |-> [i \in Indices |-> a], im |-> Zero]
    [] kind = "bins"    -> [re |-> [i \in Indices |->
                                      IF i = 1 \/ i = FFT_SIZE - 1 THEN a ELSE 0],
                            im |-> Zero]
    [] kind = "pair"    -> [re |-> [i \in Indices |-> IF i <= 1 THEN a ELSE 0],
                            im |-> [i \in Indices |-> IF i <= 1 THEN a ELSE 0]]
    [] kind = "square"  -> [re |-> [i \in Indices |->
                                      IF i % 8 < 4 THEN a ELSE Int16(-a)],
                            im |-> [i \in Indices |->
                                      IF (i + 1) % 8 < 4 THEN a ELSE Int16(-a)]]
    [] kind = "ramp"    -> [re |-> [i \in Indices |-> i],
                            im |-> [i \in Indices |-> -(i + 1)]]
    [] kind = "noise"   -> [re |-> [i \in Indices |->
                                      Int16((i * i * a * 37 + i * 25173 + a * 13849) % 65536)],
                            im |-> [i \in Indices |->
                                      Int16((i * i * a * 91 + i * 9377 + a * 28411) % 65536)]]

Inputs ==
  {<<"zero", 0>>, <<"ramp", 0>>}
    \cup ({"impulse", "dc", "bins", "pair", "square"} \X Amps)
    \cup ({"noise"} \X (1 .. MaxSeed))

(* Operands for FIX_MPY taken on its own.                                   *)
MpyOperands ==
  {-32768, -32767, -16385, -16384, -3, -1, 0, 1, 2, 16383, 16384, 23170, 32766, 32767}

(* ---------------------------------------------------------------------- *)
(* State                                                                    *)
(* ---------------------------------------------------------------------- *)

VARIABLES
  fr, fi,        \* the sample arrays, transformed in place
  inverse,       \* the direction flag of the call
  k, step,       \* stage counter and butterfly distance
  scale, shift,  \* scale accumulator, and the stage's shift flag
  pc,            \* position in fix_fft (or in FIX_MPY)
  ret,           \* the value fix_fft returned
  a, b, c,       \* FIX_MPY's operands and the value it returned
  fr0, fi0,      \* ghost: the arrays as passed to the current call
  frS, fiS,      \* ghost: the signal the first call was given
  ncall, ret1,   \* ghost: which call is running, what the first returned
  swaps,         \* ghost: the swaps of the re-ordering pass, in order
  pairs, tw,     \* ghost: the pairs and twiddle indices of the last stage
  nwrap,         \* ghost: butterflies that stored a wrapped value
  oobAccess,     \* ghost: an index was outside its array
  hist           \* ghost: one record per stage started

vars == <<fr, fi, inverse, k, step, scale, shift, pc, ret, a, b, c, fr0, fi0,
          frS, fiS, ncall, ret1, swaps, pairs, tw, nwrap, oobAccess, hist>>

mpyVars == <<a, b, c>>
callVars == <<inverse, fr0, fi0, frS, fiS, ncall, ret1>>

(* fix_fft is entered with the arrays holding signal sig.                   *)
Entry(sig, inv) ==
  /\ fr = sig.re /\ fi = sig.im
  /\ fr0 = sig.re /\ fi0 = sig.im
  /\ frS = sig.re /\ fiS = sig.im
  /\ inverse = inv
  /\ k = 0 /\ step = 0 /\ scale = 0 /\ shift = FALSE
  /\ pc = "reorder" /\ ret = -1
  /\ ncall = 1 /\ ret1 = -1
  /\ swaps = <<>> /\ pairs = <<>> /\ tw = <<>>
  /\ nwrap = 0 /\ oobAccess = FALSE /\ hist = <<>>

Init ==
  /\ \E in \in Inputs, inv \in BOOLEAN : Entry(Signal(in[1], in[2]), inv)
  /\ a = 0 /\ b = 0 /\ c = 0

(* Lines 245-255. *)
Reorder ==
  /\ pc = "reorder"
  /\ \E s \in {BitRevLoop([fr |-> fr, fi |-> fi, swaps |-> <<>>, i |-> 0], LoopDepth)} :
       fr' = s.fr /\ fi' = s.fi /\ swaps' = s.swaps
  /\ pc' = "stages"
  /\ UNCHANGED <<k, step, scale, shift, ret, pairs, tw, nwrap, oobAccess, hist>>
  /\ UNCHANGED mpyVars /\ UNCHANGED callVars

(* scale = 0; step = 1; for (k=FFT_ORDER; ... *)
EnterStages ==
  /\ pc = "stages"
  /\ scale' = 0 /\ step' = 1 /\ k' = FFT_ORDER
  /\ pc' = "scan"
  /\ UNCHANGED <<fr, fi, shift, ret, swaps, pairs, tw, nwrap, oobAccess, hist>>
  /\ UNCHANGED mpyVars /\ UNCHANGED callVars

(* k>0, then lines 272-281. The ghost record of the stage keeps k, step,   *)
(* and the number of samples outside the safe range when the scan ran.     *)
RangeScan ==
  /\ pc = "scan" /\ k > 0
  /\ shift' = ScanShift(fr, fi)
  /\ scale' = ScanScale(fr, fi, scale)
  /\ hist' = Append(hist, [k |-> k, step |-> step,
                           outside |-> Cardinality(Detected(fr, fi)),
                           shift |-> shift', spans |-> {}])
  /\ pc' = "butterflies"
  /\ UNCHANGED <<fr, fi, k, step, ret, swaps, pairs, tw, nwrap, oobAccess>>
  /\ UNCHANGED mpyVars /\ UNCHANGED callVars

StageFrom(oob) ==
  GroupLoop([fr |-> fr, fi |-> fi, pairs |-> <<>>, tw |-> <<>>,
             nwrap |-> nwrap, oobAccess |-> oobAccess, m |-> 0, i |-> 0],
            LoopDepth, k, step, inverse, shift, oob)

(* Lines 284-306. *)
Butterflies ==
  /\ pc = "butterflies"
  /\ \E s0 \in {StageFrom(0)} :
       \E oob \in (IF s0.oobAccess THEN OobValues ELSE {0}) :
         \E s \in (IF oob = 0 THEN {s0} ELSE {StageFrom(oob)}) :
           /\ fr' = s.fr /\ fi' = s.fi
           /\ pairs' = s.pairs /\ tw' = s.tw
           /\ nwrap' = s.nwrap /\ oobAccess' = s.oobAccess
           /\ hist' = [hist EXCEPT ![Len(hist)].spans =
                         {p[2] - p[1] : p \in {s.pairs[n] : n \in 1 .. Len(s.pairs)}}]
  /\ pc' = "advance"
  /\ UNCHANGED <<k, step, scale, shift, ret, swaps>>
  /\ UNCHANGED mpyVars /\ UNCHANGED callVars

(* step = step<<1; k-- *)
Advance ==
  /\ pc = "advance"
  /\ step' = NextStep(step)
  /\ k' = (k - 1) % 65536
  /\ pc' = "scan"
  /\ UNCHANGED <<fr, fi, scale, shift, ret, swaps, pairs, tw, nwrap, oobAccess, hist>>
  /\ UNCHANGED mpyVars /\ UNCHANGED callVars

(* k>0 fails: return scale; *)
Return ==
  /\ pc = "scan" /\ ~(k > 0)
  /\ ret' = scale
  /\ pc' = "done"
  /\ UNCHANGED <<fr, fi, k, step, scale, shift, swaps, pairs, tw, nwrap, oobAccess, hist>>
  /\ UNCHANGED mpyVars /\ UNCHANGED callVars

Next == Reorder \/ EnterStages \/ RangeScan \/ Butterflies \/ Advance \/ Return

Spec == Init /\ [][Next]_vars

(* The signals of the runs checked for termination.                         *)
LiveInputs == {<<"zero", 0>>, <<"ramp", 0>>, <<"pair", 32767>>, <<"noise", 1>>}

InitLive ==
  /\ \E in \in LiveInputs, inv \in BOOLEAN : Entry(Signal(in[1], in[2]), inv)
  /\ a = 0 /\ b = 0 /\ c = 0

(* fix_fft is single-threaded and synchronous: once called it runs to its  *)
(* return, nothing suspends it.                                             *)
FairSpec == InitLive /\ [][Next]_vars /\ WF_vars(Next)

(* ---------------------------------------------------------------------- *)
(* Forward transform, then inverse transform of the result                  *)
(* ---------------------------------------------------------------------- *)

InitRT ==
  /\ \E in \in Inputs : Entry(Signal(in[1], in[2]), FALSE)
  /\ a = 0 /\ b = 0 /\ c = 0

(* The caller passes the arrays the forward call left to a second call,    *)
(* fix_fft(fr, fi, true).                                                   *)
CallInverse ==
  /\ pc = "done" /\ ncall = 1
  /\ ncall' = 2 /\ ret1' = ret
  /\ inverse' = TRUE
  /\ fr0' = fr /\ fi0' = fi
  /\ k' = 0 /\ step' = 0 /\ scale' = 0 /\ shift' = FALSE
  /\ pc' = "reorder" /\ ret' = -1
  /\ swaps' = <<>> /\ pairs' = <<>> /\ tw' = <<>> /\ hist' = <<>>
  /\ UNCHANGED <<fr, fi, frS, fiS, nwrap, oobAccess>>
  /\ UNCHANGED mpyVars

NextRT == Next \/ CallInverse

SpecRT == InitRT /\ [][NextRT]_vars

(* ---------------------------------------------------------------------- *)
(* FIX_MPY on its own                                                       *)
(* ---------------------------------------------------------------------- *)

InitMpy ==
  /\ a \in MpyOperands /\ b \in MpyOperands /\ c = 0
  /\ pc = "mpy"
  /\ fr = Zero /\ fi = Zero /\ fr0 = Zero /\ fi0 = Zero /\ frS = Zero /\ fiS = Zero
  /\ inverse = FALSE /\ k = 0 /\ step = 0 /\ scale = 0 /\ shift = FALSE
  /\ ret = -1 /\ ncall = 0 /\ ret1 = -1
  /\ swaps = <<>> /\ pairs = <<>> /\ tw = <<>>
  /\ nwrap = 0 /\ oobAccess = FALSE /\ hist = <<>>

MpyCall ==
  /\ pc = "mpy"
  /\ c' = FIX_MPY(a, b)
  /\ pc' = "mpydone"
  /\ UNCHANGED <<fr, fi, k, step, scale, shift, ret, a, b,
                 swaps, pairs, tw, nwrap, oobAccess, hist>>
  /\ UNCHANGED callVars

SpecMpy == InitMpy /\ [][MpyCall]_vars

(* ---------------------------------------------------------------------- *)
(* Properties                                                               *)
(* ---------------------------------------------------------------------- *)

Abs(x) == IF x >= 0 THEN x ELSE -x

(* The low n bits of i, reversed.                                           *)
RECURSIVE RevBits(_, _)
RevBits(i, n) ==
  IF n = 0 THEN 0 ELSE (i % 2) * (2 ^ (n - 1)) + RevBits(i \div 2, n - 1)

Rev(i) == RevBits(i, FFT_ORDER)

(* The stages started so far in which the range scan found a sample        *)
(* outside [-0x4000, 0x3FFF].                                               *)
ShiftStages == {n \in 1 .. Len(hist) : hist[n].outside > 0}

(* The (k, step) of the stages started so far, in order.                    *)
StagesRun == [n \in 1 .. Len(hist) |-> <<hist[n].k, hist[n].step>>]

Impulse == Signal("impulse", 32767)

(* C1: with inverse = true, for every input signal, every value a          *)
(* butterfly stores (tr, ti, qr+tr, qr-tr, qi+ti, qi-ti) is the true        *)
(* integer value of its expression, within [-32768, 32767]: no stored       *)
(* sample results from 16-bit wraparound.                                   *)
C1_NoWraparound == inverse => nwrap = 0

(* C2: with inverse = false, fix_fft returns 0 for every input signal.      *)
C2_ForwardReturnsZero == (pc = "done" /\ ~inverse) => ret = 0

(* The reconstruction out * 2^sh / FFT_SIZE is within tol of the sample s. *)
(* (Both sides of |out * 2^sh - FFT_SIZE * s| <= FFT_SIZE * tol are divided *)
(* by FFT_SIZE when sh >= FFT_ORDER, to stay within 32-bit integers.)       *)
Reconstructs(out, s, sh, tol) ==
  IF sh >= FFT_ORDER
  THEN Abs(out * (2 ^ (sh - FFT_ORDER)) - s) <= tol
  ELSE Abs(out * (2 ^ sh) - FFT_SIZE * s) <= FFT_SIZE * tol

(* The width of the sample range: two int16_t samples differ by no more.   *)
SampleSpan == 32767 - (-32768)

(* C3: round trip. After fix_fft forward on S and fix_fft inverse on the    *)
(* result, each sample times 2^(sum of the two returned values) divided by  *)
(* FFT_SIZE is S's sample, up to a bounded rounding error. The claim leaves *)
(* its constant open; the bound here is the weakest one that still says     *)
(* something, the width of the sample range.                                *)
C3_RoundTrip ==
  (pc = "done" /\ ncall = 2) =>
    \A i \in Indices :
      /\ Reconstructs(fr[i], frS[i], ret1 + ret, SampleSpan)
      /\ Reconstructs(fi[i], fiS[i], ret1 + ret, SampleSpan)

(* C4: the impulse fr[0] = 32767, all else 0, transformed forward, leaves   *)
(* a flat spectrum (every bin the same real value, imaginary 0) and         *)
(* fix_fft returns 0.                                                       *)
C4_ImpulseFlatScaleZero ==
  (pc = "done" /\ ~inverse /\ fr0 = Impulse.re /\ fi0 = Impulse.im) =>
    /\ \A i \in Indices : fr[i] = fr[0] /\ fi[i] = 0
    /\ ret = 0

(* C5: the scale accumulator, and the value returned, is the number of      *)
(* stages whose range scan found a sample outside [-0x4000, 0x3FFF]; it     *)
(* lies in 0..FFT_ORDER, and is 0 for the all-zero signal.                  *)
C5_ScaleCountsShiftStages ==
  /\ pc \in {"scan", "butterflies", "advance", "done"} =>
       /\ scale = Cardinality(ShiftStages)
       /\ scale \in 0 .. FFT_ORDER
  /\ pc = "done" =>
       /\ ret = Cardinality(ShiftStages)
       /\ (fr0 = Zero /\ fi0 = Zero) => ret = 0

(* C5's case: a call has returned after stages of both kinds.               *)
C5_Witness ==
  /\ pc = "done" /\ Len(hist) = FFT_ORDER
  /\ ret > 0 /\ ret < FFT_ORDER

(* C6: after the re-ordering pass the pair at position i is the pair that   *)
(* was at rev(i), for fr and fi alike; the swaps made are exactly the       *)
(* pairs (i, rev(i)) with i < rev(i), each once, so fixed points are        *)
(* untouched.                                                               *)
C6_BitReversal ==
  pc = "stages" =>
    /\ \A i \in Indices : fr[i] = fr0[Rev(i)] /\ fi[i] = fi0[Rev(i)]
    /\ \A n \in 1 .. Len(swaps) :
         /\ swaps[n][1] < swaps[n][2]
         /\ swaps[n][2] = Rev(swaps[n][1])
         /\ n > 1 => swaps[n - 1][1] < swaps[n][1]
    /\ Len(swaps) = Cardinality({i \in Indices : i < Rev(i)})

(* C6's case: the pass has run on a signal whose samples all differ.        *)
C6_Witness ==
  /\ pc = "stages"
  /\ fr0 = Signal("ramp", 0).re /\ fi0 = Signal("ramp", 0).im
  /\ fr # fr0 /\ Len(swaps) > 0

(* C7 as stated: for all int16_t a and b, FIX_MPY(a, b) is exactly          *)
(* floor((a*b + 16384) / 32768), both operands at -32768 included.          *)
C7_MpyIsFloor == pc = "mpydone" => c = (a * b + 16384) \div 32768

(* C7, amended: FIX_MPY(a, b) is floor((a*b + 16384) / 32768) for all       *)
(* int16_t a and b except a = b = -32768, where the quantity is 32768 and   *)
(* the value returned is -32768.                                            *)
C7_MpyIsFloorUnlessBothMin ==
  pc = "mpydone" =>
    IF a = -32768 /\ b = -32768
    THEN (a * b + 16384) \div 32768 = 32768 /\ c = -32768
    ELSE c = (a * b + 16384) \div 32768

(* C7's case: a product whose rounded value is negative and inexact, where  *)
(* the direction of the rounding shows.                                     *)
C7_Witness ==
  /\ pc = "mpydone"
  /\ a * b + 16384 < 0 /\ (a * b + 16384) % 32768 # 0
  /\ c = (a * b + 16384) \div 32768

(* k and step of the FFT_ORDER stages: k = FFT_ORDER, ..., 1 and step = 1,  *)
(* 2, 4, ..., FFT_SIZE/2.                                                   *)
ExpectedStages == [n \in 1 .. FFT_ORDER |-> <<FFT_ORDER + 1 - n, 2 ^ (n - 1)>>]

(* C8: for every input signal and both directions fix_fft terminates,      *)
(* after exactly FFT_ORDER stages in which k takes FFT_ORDER, ..., 1 and    *)
(* step takes 1, 2, 4, ..., FFT_SIZE/2, once each.                          *)
C8_TerminatesAfterAllStages ==
  /\ <>(pc = "done")
  /\ [](pc = "done" => (StagesRun = ExpectedStages /\ k = 0))

(* C8's case: a call has returned.                                          *)
C8_Witness == pc = "done" /\ ret >= 0 /\ k = 0

(* C9 as stated: the stages run in order of decreasing butterfly span: the  *)
(* first has the largest span, the last has span 1.                         *)
C9_DecreasingSpan ==
  pc = "done" =>
    /\ hist[1].spans = {FFT_SIZE \div 2}
    /\ hist[Len(hist)].spans = {1}
    /\ \A n \in 1 .. (Len(hist) - 1) :
         \A x \in hist[n].spans, y \in hist[n + 1].spans : x > y

(* C9, amended: the stages run in order of increasing butterfly span: the   *)
(* first has span 1, the last, before the loop exits, has the largest       *)
(* span, FFT_SIZE/2.                                                        *)
C9_IncreasingSpan ==
  pc = "done" =>
    /\ hist[1].spans = {1}
    /\ hist[Len(hist)].spans = {FFT_SIZE \div 2}
    /\ \A n \in 1 .. (Len(hist) - 1) :
         \A x \in hist[n].spans, y \in hist[n + 1].spans : x < y

(* C9's case: every stage has run its butterflies, each with one span.      *)
C9_Witness ==
  /\ pc = "done" /\ Len(hist) = FFT_ORDER
  /\ \A n \in 1 .. Len(hist) : Cardinality(hist[n].spans) = 1

(* C10: in every stage, for every group m < step, the twiddle index         *)
(* m << (k-1) lies in [0, FFT_SIZE/2), and both Sine[j] and                 *)
(* Sine[j + FFT_SIZE/4] are read inside the table.                          *)
C10_TwiddleInsideTable ==
  /\ \A n \in 1 .. Len(tw) :
       /\ tw[n] >= 0 /\ tw[n] < FFT_SIZE \div 2
       /\ tw[n] < Len(Sine) /\ tw[n] + FFT_SIZE \div 4 < Len(Sine)
       /\ pc = "advance" => tw[n] = (n - 1) * (2 ^ (k - 1))
  /\ pc = "advance" => Len(tw) = step

(* C10's case: the last stage has used the largest twiddle index.           *)
C10_Witness ==
  /\ pc = "advance" /\ k = 1
  /\ Len(tw) = FFT_SIZE \div 2
  /\ tw[Len(tw)] = FFT_SIZE \div 2 - 1

(* The positions the butterflies of the last stage read and wrote.         *)
Touched == {pairs[n][1] : n \in 1 .. Len(pairs)} \cup {pairs[n][2] : n \in 1 .. Len(pairs)}

====
